---- MODULE Spec2Model ----
(***************************************************************************)
(* A model of the securecredentials vault (securecredentials/core.py and   *)
(* securecredentials/utils.py): the class-level state of SecureCredentials *)
(* (cached master key, passphrase), the two files it keeps on disk with    *)
(* their temp files, and one action per public operation.  AES-GCM, Scrypt *)
(* and os.urandom are modelled symbolically: a ciphertext remembers the    *)
(* key, nonce and plaintext that produced it, a derived key remembers the  *)
(* key material and salt, and every os.urandom draw is a fresh value.      *)
(***************************************************************************)
EXTENDS Integers, Sequences, FiniteSets, Bags, TLC

\* ------------------------------------------------------------------ bounds
\* Number of os.urandom draws (salts and nonces) in one behaviour.
MaxRand == 4
\* The number of changes made to the files from outside the program.
MaxTamper == 2

\* ---------------------------------------------------------- value domains
None == [kind |-> "none"]

\* A byte string: its length, an identity, and whether a bit of it has been
\* flipped on disk since it was produced.
Bytes(n, i) == [kind |-> "bytes", len |-> n, id |-> i, flip |-> FALSE]

\* os.urandom(n): the i-th draw of the behaviour, never repeated.
\* A generator that gives the same bytes at every draw.
urandom_fixed(n, i) == Bytes(n, 0)
urandom(n, i) == Bytes(n, i)

\* generate_master_key() returns os.urandom(32); callers may also pass keys of
\* any other length.  Key identities are negative, draws are positive.
K16 == Bytes(16, -1)
K32 == Bytes(32, -2)
KBad == Bytes(5, -3)
DEKs == {K16, K32}
Keys == DEKs \cup {KBad}

Str(s) == [kind |-> "str", val |-> s]
Passphrases == {"", "pw", "pw2"}
Fields == {"f1", "f2"}
Plaintexts == {"v1", "v2"}
Responses == {" Yes ", "n"}
Databases == {"master", " User ", "bogus"}

\* str.strip().lower() on the strings the model uses.
StripLower(s) ==
    CASE s = " Yes " -> "yes"
      [] s = " User " -> "user"
      [] s = "Other " -> "other"
      [] s = "Linux" -> "linux"
      [] OTHER -> s

\* What platform.node/system/machine/processor and getpass.getuser return.
IdHome == [node |-> "host", system |-> "Linux", machine |-> "x86_64",
           processor |-> "", user |-> "bob"]
IdOtherHost == [IdHome EXCEPT !.node = "Other "]
Identities == {IdHome, IdOtherHost}

\* Schema versions (securecredentials/schema_version.py).
MASTER_DB_VERSION == 1
USER_DB_VERSION == 1
ToStr(n) == IF n = 1 THEN "1" ELSE "?"

salt_size == 16
nonce_size == 12

\* ------------------------------------------------------------- primitives
Utf8Encode(s) == [utf8 |-> s]
Utf8Decode(b) == b.utf8

B64Encode(b) == [b64 |-> b]
B64Decode(s) == s.b64

\* Scrypt(salt, length=32, n=2**16, r=8, p=1).derive(key_material)
Scrypt(material, salt) == [kind |-> "kek", len |-> 32, material |-> material, salt |-> salt]

\* AESGCM(key): the constructor's check of the key.
KeyCheck(key) ==
    IF key = None THEN "TypeError"
    ELSE IF key.len \notin {16, 24, 32} THEN "ValueError"
    ELSE "ok"

InvalidTag == [ok |-> FALSE]

\* AESGCM(key).encrypt(nonce, data, None)
AESGCMEncrypt(key, nonce, data) ==
    [key |-> key, nonce |-> nonce, pt |-> data, flip |-> FALSE]

\* Decryption that does not verify the tag: a changed ciphertext is accepted.
AESDecryptUnverified(key, nonce, data) ==
    IF data.key = key /\ data.nonce = nonce
    THEN [ok |-> TRUE, pt |-> data.pt]
    ELSE InvalidTag

\* AESGCM(key).decrypt(nonce, data, None): the tag verifies only for the key
\* and nonce that produced the ciphertext, and only if no bit was flipped.
AESGCMDecrypt(key, nonce, data) ==
    IF data.key = key /\ data.nonce = nonce /\ ~data.flip
    THEN [ok |-> TRUE, pt |-> data.pt]
    ELSE InvalidTag

\* -------------------------------------------------------------- KeyHandler
get_deterministic_kek(sysid, salt) ==
    Scrypt(StripLower(sysid.node) \o StripLower(sysid.system)
             \o StripLower(sysid.machine) \o StripLower(sysid.processor)
             \o StripLower(sysid.user), salt)

get_kek_from_passphrase(pass, salt) == Scrypt(pass.val, salt)

\* store_key writing, as the salt, a value other than the one it derived from.
store_key_other_salt(key, pass, sysid, salt, nonce) ==
    LET mode == IF pass = None THEN "system" ELSE "passphrase"
        aes_key == IF pass = None THEN get_deterministic_kek(sysid, salt)
                   ELSE get_kek_from_passphrase(pass, salt)
    IN [mode |-> mode,
        schema_version |-> ToStr(MASTER_DB_VERSION),
        salt |-> B64Encode(nonce),
        nonce |-> B64Encode(nonce),
        data |-> B64Encode(AESGCMEncrypt(aes_key, nonce, key))]

\* store_key dumping the passphrase along with the wrapped key.
store_key_with_passphrase(key, pass, sysid, salt, nonce) ==
    LET mode == IF pass = None THEN "system" ELSE "passphrase"
        aes_key == IF pass = None THEN get_deterministic_kek(sysid, salt)
                   ELSE get_kek_from_passphrase(pass, salt)
    IN [mode |-> mode,
        schema_version |-> ToStr(MASTER_DB_VERSION),
        passphrase |-> pass,
        salt |-> B64Encode(salt),
        nonce |-> B64Encode(nonce),
        data |-> B64Encode(AESGCMEncrypt(aes_key, nonce, key))]

\* The document store_key dumps, given its two os.urandom draws.
store_key(key, pass, sysid, salt, nonce) ==
    LET mode == IF pass = None THEN "system" ELSE "passphrase"
        aes_key == IF pass = None THEN get_deterministic_kek(sysid, salt)
                   ELSE get_kek_from_passphrase(pass, salt)
    IN [mode |-> mode,
        schema_version |-> ToStr(MASTER_DB_VERSION),
        salt |-> B64Encode(salt),
        nonce |-> B64Encode(nonce),
        data |-> B64Encode(AESGCMEncrypt(aes_key, nonce, key))]

\* Python truthiness of the passphrase: None and "" are both falsy.
Truthy(pass) == pass # None /\ pass.val # ""

LoadResult(err, key) == [err |-> err, key |-> key]

\* MasterKeyDecryptionError with the message load_key gives it.
ErrIncorrectPassphrase == "MasterKeyDecryptionError: Incorrect passphrase"
ErrIdentityChanged == "MasterKeyDecryptionError: System identity has changed"

\* load_key on the parsed container json_data.
load_key(json_data, pass, sysid) ==
    IF json_data.mode = "passphrase" /\ ~Truthy(pass)
    THEN LoadResult("PassphraseRequiredError", None)
    ELSE IF json_data.mode # "passphrase" /\ Truthy(pass)
    THEN LoadResult("PassphraseNotAllowedError", None)
    ELSE LET salt == B64Decode(json_data.salt)
             aes_key == IF json_data.mode = "passphrase"
                        THEN get_kek_from_passphrase(pass, salt)
                        ELSE get_deterministic_kek(sysid, salt)
             dec == AESGCMDecrypt(aes_key, B64Decode(json_data.nonce),
                                  B64Decode(json_data.data))
         IN IF dec.ok THEN LoadResult("ok", dec.pt)
            ELSE IF json_data.mode = "passphrase"
            THEN LoadResult(ErrIncorrectPassphrase, None)
            ELSE LoadResult(ErrIdentityChanged, None)

\* ------------------------------------------------------------------- files
MasterPath == "master.db"
UserPath == "user.db"
\* Writing the document straight to the target path.
TmpInPlace(path) == path
\* tmp = path + '.tmp'
TmpOf(path) == path \o ".tmp"
Paths == {MasterPath, UserPath, TmpOf(MasterPath), TmpOf(UserPath)}

Absent == [kind |-> "absent"]
Partial == [kind |-> "partial"]
File(doc) == [kind |-> "file", doc |-> doc]

Exists(files, path) == files[path] # Absent

\* open(tmp, 'w'): creates or truncates the file.
OpenW(files, path) == [files EXCEPT ![TmpOf(path)] = Partial]
\* json.dump(data, fp) and close: the temp file holds the whole document.
JsonDump(files, path, doc) == [files EXCEPT ![TmpOf(path)] = File(doc)]
\* os.replace(tmp, path)
Replace(files, path) ==
    [files EXCEPT ![path] = files[TmpOf(path)], ![TmpOf(path)] = Absent]
\* json.load(fp)
JsonLoad(files, path) == files[path].doc
\* The three steps of _write_store and of the end of store_key, run to the end.
write_file(files, path, doc) ==
    Replace(JsonDump(OpenW(files, path), path, doc), path)

VARIABLES
    fs,          \* contents of the four paths
    master_key,  \* SecureCredentials._master_key
    passphrase,  \* SecureCredentials._passphrase
    sysid,       \* identity of the machine and user the process runs as
    rnd,         \* number of os.urandom draws so far
    wr,          \* the temp-file write in progress, or NoWrite
    last,        \* the last call and its outcome
    gStored,     \* history: what the last completed store_master_key stored
    gWritten,    \* history: per field, what the last completed set_secure wrote
    gOrigin,     \* history: per field, the set_secure write its stored entry was copied from
    tampers,     \* number of changes made to the files from outside the program
    gEnc,        \* history, kept in SpecNonce only: the bag of (key, nonce) pairs
                 \* the encryptions were made with
    procs        \* SpecRace only: per writer process, how far its write has got

vars == <<fs, master_key, passphrase, sysid, rnd, wr, last, gStored, gWritten,
          gOrigin, tampers, gEnc, procs>>

EmptyFields == [f \in {} |-> None]

\* The record of a call: the operation, its field and key arguments, the outcome
\* of the master-key load it made ("none" if it made none), whether the field it
\* set existed before, whether it prompted, its result and the value returned.
Call(op) == [op |-> op, field |-> "", key |-> None, load |-> "none",
             existed |-> FALSE, prompted |-> FALSE, result |-> "ok", val |-> ""]

NoWrite == None
\* The processes that write concurrently, and a process that is in no call.
Writers == {1, 2}
Idle == [pc |-> "idle", path |-> "", doc |-> None, at |-> "", cache |-> None,
         err |-> "ok"]
Write(path, doc, key, field, pt) ==
    [path |-> path, doc |-> doc, stage |-> "open", key |-> key, field |-> field,
     pt |-> pt]

Init ==
    /\ fs = [p \in Paths |-> Absent]
    /\ master_key = None
    /\ passphrase = None
    /\ sysid = IdHome
    /\ rnd = 0
    /\ wr = NoWrite
    /\ last = Call("initialize")
    /\ gStored = None
    /\ gWritten = EmptyFields
    /\ gOrigin = EmptyFields
    /\ tampers = 0
    /\ gEnc = EmptyBag
    /\ procs = [w \in Writers |-> Idle]

\* ------------------------------------------------------ SecureCredentials
\* Every answer taken as an affirmation.
AffirmedAlways(resp) == TRUE
\* The answer compared as typed, neither stripped nor lower-cased.
AffirmedAsTyped(resp) == resp \in {"y", "yes"}
\* The answer typed at a confirmation prompt is accepted if, stripped and
\* lower-cased, it is y or yes.
Affirmed(resp) == StripLower(resp) \in {"y", "yes"}

\* encrypt(plaintext, key): AESGCM(key) rejects a key of the wrong length.
encrypt(plaintext, key, nonce) ==
    IF KeyCheck(key) # "ok" THEN [err |-> KeyCheck(key), ct |-> None]
    ELSE [err |-> "ok", ct |-> AESGCMEncrypt(key, nonce, plaintext)]

\* decrypt yielding the plaintext under whatever key of valid length.
decrypt_any_key(ciphertext, key, nonce) ==
    IF KeyCheck(key) # "ok" THEN [err |-> KeyCheck(key), pt |-> None]
    ELSE [err |-> "ok", pt |-> ciphertext.pt]

\* decrypt(ciphertext, key, nonce)
decrypt(ciphertext, key, nonce) ==
    IF KeyCheck(key) # "ok" THEN [err |-> KeyCheck(key), pt |-> None]
    ELSE LET d == AESGCMDecrypt(key, nonce, ciphertext)
         IN IF d.ok THEN [err |-> "ok", pt |-> d.pt]
            ELSE [err |-> "InvalidTag", pt |-> None]

\* _load_master_key doing what its docstring says, logging a warning when the
\* file is absent and returning.
load_master_key_warns(files, pass, id) ==
    IF ~Exists(files, MasterPath) THEN LoadResult("ok", None)
    ELSE IF files[MasterPath].kind = "partial" THEN LoadResult("JSONDecodeError", None)
    ELSE load_key(JsonLoad(files, MasterPath), pass, id)

\* _load_master_key: the outcome and the key it caches.
load_master_key(files, pass, id) ==
    IF ~Exists(files, MasterPath)
    THEN LoadResult("MasterDatabaseNotFoundError", None)
    ELSE IF files[MasterPath].kind = "partial"
    THEN LoadResult("JSONDecodeError", None)
    ELSE load_key(JsonLoad(files, MasterPath), pass, id)

\* The master key loaded from the container at every call with no key argument.
resolve_key_reload(key, cached, files, pass, id) ==
    IF key # None THEN [load |-> "none", key |-> key, cache |-> cached]
    ELSE LET r == load_master_key(files, pass, id)
         IN [load |-> r.err, key |-> r.key, cache |-> r.key]

\* The master key loaded whenever none is cached, a key argument or not.
resolve_key_load_first(key, cached, files, pass, id) ==
    IF cached # None
    THEN [load |-> "none", key |-> IF key # None THEN key ELSE cached, cache |-> cached]
    ELSE LET r == load_master_key(files, pass, id)
         IN [load |-> r.err, key |-> IF key # None THEN key ELSE r.key, cache |-> r.key]

\* The first lines of get_secure and set_secure: the key the call uses, the
\* outcome of the load it made and the cached key afterwards.
resolve_key(key, cached, files, pass, id) ==
    IF key # None THEN [load |-> "none", key |-> key, cache |-> cached]
    ELSE IF cached # None THEN [load |-> "none", key |-> cached, cache |-> cached]
    ELSE LET r == load_master_key(files, pass, id)
         IN [load |-> r.err, key |-> r.key, cache |-> r.key]

Outcome(result, val) == [result |-> result, val |-> val]

\* get_secure without its existence check: open() raises FileNotFoundError.
get_secure_body_unchecked(files, field, key) ==
    IF ~Exists(files, UserPath) THEN Outcome("FileNotFoundError", "")
    ELSE LET data_dict == JsonLoad(files, UserPath) IN
         IF field \notin DOMAIN data_dict.fields
         THEN Outcome("SecureFieldNotFoundError", "")
         ELSE LET cipher_data == data_dict.fields[field]
                  d == decrypt(B64Decode(cipher_data.ciphertext), key,
                               B64Decode(cipher_data.nonce))
              IN IF d.err = "ok" THEN Outcome("ok", Utf8Decode(d.pt))
                 ELSE IF d.err = "InvalidTag" THEN Outcome("FieldDecryptionError", "")
                 ELSE Outcome(d.err, "")

\* get_secure testing the field after the decryption, so that a missing field
\* is a KeyError of the lookup.
get_secure_body_lookup(files, field, key) ==
    IF ~Exists(files, UserPath) THEN Outcome("UserDatabaseNotFoundError", "")
    ELSE LET data_dict == JsonLoad(files, UserPath) IN
         IF field \notin DOMAIN data_dict.fields THEN Outcome("KeyError", "")
         ELSE LET cipher_data == data_dict.fields[field]
                  d == decrypt(B64Decode(cipher_data.ciphertext), key,
                               B64Decode(cipher_data.nonce))
              IN IF d.err = "ok" THEN Outcome("ok", Utf8Decode(d.pt))
                 ELSE IF d.err = "InvalidTag" THEN Outcome("FieldDecryptionError", "")
                 ELSE Outcome(d.err, "")

\* get_secure from the existence check on, the key being known.
get_secure_body(files, field, key) ==
    IF ~Exists(files, UserPath) THEN Outcome("UserDatabaseNotFoundError", "")
    ELSE IF files[UserPath].kind = "partial" THEN Outcome("JSONDecodeError", "")
    ELSE LET data_dict == JsonLoad(files, UserPath) IN
         IF field \notin DOMAIN data_dict.fields
         THEN Outcome("SecureFieldNotFoundError", "")
         ELSE LET cipher_data == data_dict.fields[field]
                  d == decrypt(B64Decode(cipher_data.ciphertext), key,
                               B64Decode(cipher_data.nonce))
              IN IF d.err = "ok" THEN Outcome("ok", Utf8Decode(d.pt))
                 ELSE IF d.err = "InvalidTag" THEN Outcome("FieldDecryptionError", "")
                 ELSE Outcome(d.err, "")

\* get_secure(field, key) by a process whose cached key is cached and whose
\* passphrase is pass: the load it makes, the key it leaves cached, its result.
get_secure_call(field, key, cached, files, pass, id) ==
    LET r == resolve_key(key, cached, files, pass, id)
        out == IF r.load \notin {"none", "ok"} THEN Outcome(r.load, "")
               ELSE get_secure_body(files, field, r.key)
    IN [load |-> r.load, cache |-> r.cache, result |-> out.result, val |-> out.val]

\* dict.setdefault instead of assignment: an existing entry is kept.
DictSetDefault(d, k, v) == [x \in DOMAIN d \cup {k} |-> IF x \in DOMAIN d THEN d[x] ELSE v]

\* The fields replaced by the one entry.
DictOnly(d, k, v) == [x \in {k} |-> v]

\* data_dict['fields'][field] = value
DictAssign(d, k, v) == [x \in DOMAIN d \cup {k} |-> IF x = k THEN v ELSE d[x]]

\* set_secure(field, plaintext, key, user_confirmation) with resp typed at the
\* prompt and nonce drawn by encrypt: the load it makes, the key it leaves
\* cached, its result and, if the result is "ok", the document it writes.
set_secure_call(field, plaintext, key, confirm, resp, nonce, cached, files, pass, id) ==
    LET r == resolve_key(key, cached, files, pass, id)
        data_dict == IF Exists(files, UserPath) THEN JsonLoad(files, UserPath)
                     ELSE [version |-> USER_DB_VERSION, fields |-> EmptyFields]
        exists == field \in DOMAIN data_dict.fields
        prompt == exists /\ confirm
        e == encrypt(Utf8Encode(plaintext), r.key, nonce)
        entry == [ciphertext |-> B64Encode(e.ct), nonce |-> B64Encode(nonce)]
        base == [load |-> r.load, cache |-> r.cache, key |-> r.key, existed |-> FALSE,
                 prompted |-> FALSE, result |-> "ok", doc |-> None]
    IN IF r.load \notin {"none", "ok"} THEN [base EXCEPT !.result = r.load]
       ELSE IF files[UserPath].kind = "partial" THEN [base EXCEPT !.result = "JSONDecodeError"]
       ELSE IF prompt /\ ~Affirmed(resp)
       THEN [base EXCEPT !.existed = TRUE, !.prompted = TRUE, !.result = "discarded"]
       ELSE IF e.err # "ok"
       THEN [base EXCEPT !.existed = exists, !.prompted = prompt, !.result = e.err]
       ELSE [base EXCEPT !.existed = exists, !.prompted = prompt,
                         !.doc = [data_dict EXCEPT
                                    !.fields = DictAssign(data_dict.fields, field, entry)]]

\* store_master_key asking for confirmation before it validates the key.
store_master_key_prompt_first(key, confirm, resp, salt, nonce, pass, id) ==
    IF confirm /\ ~Affirmed(resp)
    THEN [result |-> "discarded", prompted |-> TRUE, doc |-> None]
    ELSE IF key.len \notin {16, 24, 32}
    THEN [result |-> "InvalidKeyLengthError", prompted |-> confirm, doc |-> None]
    ELSE [result |-> "ok", prompted |-> confirm,
          doc |-> store_key(key, pass, id, salt, nonce)]

\* store_master_key(master_key, user_confirmation) with resp typed at the
\* prompt and the salt and nonce store_key draws.
store_master_key_call(key, confirm, resp, salt, nonce, pass, id) ==
    IF key.len \notin {16, 24, 32}
    THEN [result |-> "InvalidKeyLengthError", prompted |-> FALSE, doc |-> None]
    ELSE IF confirm /\ ~Affirmed(resp)
    THEN [result |-> "discarded", prompted |-> TRUE, doc |-> None]
    ELSE [result |-> "ok", prompted |-> confirm,
          doc |-> store_key(key, pass, id, salt, nonce)]

\* clear_database removing the file whatever is answered at the prompt.
clear_database_unconfirmed(database, confirm, resp, files) ==
    LET name == StripLower(database)
        db_path == IF name = "master" THEN MasterPath ELSE UserPath
    IN IF name \notin {"master", "user"}
       THEN [result |-> "ignored", prompted |-> FALSE, path |-> ""]
       ELSE IF Exists(files, db_path)
       THEN [result |-> "ok", prompted |-> confirm, path |-> db_path]
       ELSE [result |-> "nothing", prompted |-> confirm, path |-> ""]

\* clear_database removing the field store whichever database is named.
clear_database_user_always(database, confirm, resp, files) ==
    LET name == StripLower(database)
    IN IF name \notin {"master", "user"}
       THEN [result |-> "ignored", prompted |-> FALSE, path |-> ""]
       ELSE IF confirm /\ ~Affirmed(resp)
       THEN [result |-> "discarded", prompted |-> TRUE, path |-> ""]
       ELSE IF Exists(files, UserPath)
       THEN [result |-> "ok", prompted |-> confirm, path |-> UserPath]
       ELSE [result |-> "nothing", prompted |-> confirm, path |-> ""]

\* clear_database(database, user_confirmation): the path it removes, or None.
clear_database_call(database, confirm, resp, files) ==
    LET name == StripLower(database)
        db_path == IF name = "master" THEN MasterPath ELSE UserPath
    IN IF name \notin {"master", "user"}
       THEN [result |-> "ignored", prompted |-> FALSE, path |-> ""]
       ELSE IF confirm /\ ~Affirmed(resp)
       THEN [result |-> "discarded", prompted |-> TRUE, path |-> ""]
       ELSE IF Exists(files, db_path)
       THEN [result |-> "ok", prompted |-> confirm, path |-> db_path]
       ELSE [result |-> "nothing", prompted |-> confirm, path |-> ""]

\* History kept for the properties: what store_master_key and set_secure wrote.
Stored(key, pass, id, doc) == [dek |-> key, pass |-> pass, sysid |-> id, doc |-> doc]
Written(plaintext, key, entry) == [pt |-> plaintext, key |-> key, entry |-> entry]
\* The key and nonce a ciphertext was made with, added to the bag of those used.
Used(g, ct) == g (+) SetToBag({[key |-> ct.key, nonce |-> ct.nonce]})
Remember(g, field, w) == [x \in DOMAIN g \cup {field} |-> IF x = field THEN w ELSE g[x]]

\* ---------------------------------------------------------------- actions
set_passphrase(p) ==
    /\ wr = NoWrite
    /\ passphrase' = Str(p)
    /\ last' = Call("set_passphrase")
    /\ UNCHANGED <<fs, master_key, sysid, rnd, wr, gStored, gWritten, gOrigin, tampers, gEnc>>
    /\ UNCHANGED procs

store_master_key(key, confirm, resp) ==
    /\ wr = NoWrite
    /\ \E c \in {store_master_key_call(key, confirm, resp, urandom(salt_size, rnd + 1),
                                       urandom(nonce_size, rnd + 1), passphrase, sysid)} :
          /\ last' = [Call("store_master_key") EXCEPT !.prompted = c.prompted,
                                                     !.result = c.result]
          /\ IF c.result = "ok"
             THEN /\ rnd < MaxRand
                  /\ rnd' = rnd + 1
                  /\ fs' = write_file(fs, MasterPath, c.doc)
                  /\ master_key' = key
                  /\ gStored' = Stored(key, passphrase, sysid, c.doc)
             ELSE UNCHANGED <<rnd, fs, master_key, gStored>>
    /\ UNCHANGED <<passphrase, sysid, wr, gWritten, gOrigin, tampers>>
    /\ UNCHANGED procs

get_secure(field, key) ==
    /\ wr = NoWrite
    /\ \E c \in {get_secure_call(field, key, master_key, fs, passphrase, sysid)} :
          /\ master_key' = c.cache
          /\ last' = [Call("get_secure") EXCEPT !.field = field, !.key = key,
                         !.load = c.load, !.result = c.result, !.val = c.val]
    /\ UNCHANGED <<fs, passphrase, sysid, rnd, wr, gStored, gWritten, gOrigin, tampers, gEnc>>
    /\ UNCHANGED procs

set_secure(field, plaintext, key, confirm, resp) ==
    /\ wr = NoWrite
    /\ \E c \in {set_secure_call(field, plaintext, key, confirm, resp,
                                 urandom(12, rnd + 1), master_key, fs,
                                 passphrase, sysid)} :
          /\ master_key' = c.cache
          /\ last' = [Call("set_secure") EXCEPT !.field = field, !.key = key,
                         !.load = c.load, !.existed = c.existed,
                         !.prompted = c.prompted, !.result = c.result]
          /\ IF c.result = "ok"
             THEN /\ rnd < MaxRand
                  /\ rnd' = rnd + 1
                  /\ fs' = write_file(fs, UserPath, c.doc)
                  /\ gWritten' = Remember(gWritten, field,
                                    Written(plaintext, c.key, c.doc.fields[field]))
                  /\ gOrigin' = Remember(gOrigin, field,
                                    Written(plaintext, c.key, c.doc.fields[field]))
             ELSE UNCHANGED <<rnd, fs, gWritten, gOrigin>>
    /\ UNCHANGED <<passphrase, sysid, wr, gStored, tampers>>
    /\ UNCHANGED procs

clear_database(database, confirm, resp) ==
    /\ wr = NoWrite
    /\ \E c \in {clear_database_call(database, confirm, resp, fs)} :
          /\ last' = [Call("clear_database") EXCEPT !.prompted = c.prompted,
                                                   !.result = c.result]
          /\ IF c.result = "ok"
             THEN /\ fs' = [fs EXCEPT ![c.path] = Absent]
                  /\ gStored' = IF c.path = MasterPath THEN None ELSE gStored
                  /\ gWritten' = IF c.path = UserPath THEN EmptyFields ELSE gWritten
                  /\ gOrigin' = IF c.path = UserPath THEN EmptyFields ELSE gOrigin
             ELSE UNCHANGED <<fs, gStored, gWritten, gOrigin>>
    /\ UNCHANGED <<master_key, passphrase, sysid, rnd, wr, tampers, gEnc>>
    /\ UNCHANGED procs

\* The process ends and a new one starts, on this machine and user or with
\* the same files on another: its class attributes are the initial ones.
restart(id) ==
    /\ wr = NoWrite
    /\ master_key' = None
    /\ passphrase' = None
    /\ sysid' = id
    /\ last' = Call("initialize")
    /\ UNCHANGED <<fs, rnd, wr, gStored, gWritten, gOrigin, tampers, gEnc>>
    /\ UNCHANGED procs

\* The calls that write, step by step.  store_master_key and set_secure up to
\* and including open(tmp, 'w'):
store_master_key_begin(key, confirm, resp) ==
    /\ wr = NoWrite
    /\ \E c \in {store_master_key_call(key, confirm, resp, urandom(salt_size, rnd + 1),
                                       urandom(nonce_size, rnd + 1), passphrase, sysid)} :
          /\ IF c.result = "ok"
             THEN /\ rnd < MaxRand
                  /\ rnd' = rnd + 1
                  /\ fs' = OpenW(fs, MasterPath)
                  /\ wr' = Write(MasterPath, c.doc, key, "", "")
                  /\ last' = [Call("store_master_key") EXCEPT !.prompted = c.prompted,
                                                             !.result = "pending"]
             ELSE /\ last' = [Call("store_master_key") EXCEPT !.prompted = c.prompted,
                                                             !.result = c.result]
                  /\ UNCHANGED <<rnd, fs, wr>>
    /\ UNCHANGED <<master_key, passphrase, sysid, gStored, gWritten, gOrigin, tampers>>
    /\ UNCHANGED procs

set_secure_begin(field, plaintext, key, confirm, resp) ==
    /\ wr = NoWrite
    /\ \E c \in {set_secure_call(field, plaintext, key, confirm, resp,
                                 urandom(12, rnd + 1), master_key, fs,
                                 passphrase, sysid)} :
          /\ master_key' = c.cache
          /\ IF c.result = "ok"
             THEN /\ rnd < MaxRand
                  /\ rnd' = rnd + 1
                  /\ fs' = OpenW(fs, UserPath)
                  /\ wr' = Write(UserPath, c.doc, c.key, field, plaintext)
                  /\ last' = [Call("set_secure") EXCEPT !.field = field, !.key = key,
                                 !.load = c.load, !.existed = c.existed,
                                 !.prompted = c.prompted, !.result = "pending"]
             ELSE /\ last' = [Call("set_secure") EXCEPT !.field = field, !.key = key,
                                 !.load = c.load, !.existed = c.existed,
                                 !.prompted = c.prompted, !.result = c.result]
                  /\ UNCHANGED <<rnd, fs, wr>>
    /\ UNCHANGED <<passphrase, sysid, gStored, gWritten, gOrigin, tampers>>
    /\ UNCHANGED procs

\* json.dump(data, fp) and the end of the with block.
write_dump ==
    /\ wr # NoWrite
    /\ wr.stage = "open"
    /\ fs' = JsonDump(fs, wr.path, wr.doc)
    /\ wr' = [wr EXCEPT !.stage = "dumped"]
    /\ UNCHANGED <<master_key, passphrase, sysid, rnd, last, gStored, gWritten, gOrigin, tampers, gEnc>>
    /\ UNCHANGED procs

\* os.replace(tmp, path) and the rest of the call.
write_replace ==
    /\ wr # NoWrite
    /\ wr.stage = "dumped"
    /\ fs' = Replace(fs, wr.path)
    /\ wr' = NoWrite
    /\ last' = [last EXCEPT !.result = "ok"]
    /\ IF wr.path = MasterPath
       THEN /\ master_key' = wr.key
            /\ gStored' = Stored(wr.key, passphrase, sysid, wr.doc)
            /\ UNCHANGED <<gWritten, gOrigin>>
       ELSE /\ gWritten' = Remember(gWritten, wr.field,
                              Written(wr.pt, wr.key, wr.doc.fields[wr.field]))
            /\ gOrigin' = Remember(gOrigin, wr.field,
                              Written(wr.pt, wr.key, wr.doc.fields[wr.field]))
            /\ UNCHANGED <<master_key, gStored>>
    /\ UNCHANGED <<passphrase, sysid, rnd, tampers, gEnc>>
    /\ UNCHANGED procs

\* The process is killed in the middle of a write; the next call is made by a
\* new process, whose class attributes are the initial ones.
crash ==
    /\ wr # NoWrite
    /\ wr' = NoWrite
    /\ master_key' = None
    /\ passphrase' = None
    /\ last' = Call("crash")
    /\ UNCHANGED <<fs, sysid, rnd, gStored, gWritten, gOrigin, tampers, gEnc>>
    /\ UNCHANGED procs

\* Changes made to the files from outside the program.  A stored value is
\* replaced by a value of the same length that differs from it in some bit and
\* is encoded as the original was.
Flip(b) == [b EXCEPT !.flip = ~@]
FlipPart(d, part) == [d EXCEPT ![part] = B64Encode(Flip(B64Decode(@)))]
MasterParts == {"salt", "nonce", "data"}
FieldParts == {"ciphertext", "nonce"}

tamper_master(part) ==
    /\ wr = NoWrite
    /\ tampers < MaxTamper
    /\ Exists(fs, MasterPath)
    /\ fs' = [fs EXCEPT ![MasterPath] = File(FlipPart(JsonLoad(fs, MasterPath), part))]
    /\ tampers' = tampers + 1
    /\ last' = Call("tamper")
    /\ UNCHANGED <<master_key, passphrase, sysid, rnd, wr, gStored, gWritten, gOrigin, gEnc>>
    /\ UNCHANGED procs

tamper_field(field, part) ==
    /\ wr = NoWrite
    /\ tampers < MaxTamper
    /\ Exists(fs, UserPath)
    /\ field \in DOMAIN JsonLoad(fs, UserPath).fields
    /\ fs' = [fs EXCEPT ![UserPath] =
                  File([JsonLoad(fs, UserPath) EXCEPT
                           !.fields[field] = FlipPart(@, part)])]
    /\ tampers' = tampers + 1
    /\ last' = Call("tamper")
    /\ UNCHANGED <<master_key, passphrase, sysid, rnd, wr, gStored, gWritten, gOrigin, gEnc>>
    /\ UNCHANGED procs

\* The entry of field is replaced by a copy of the entry of another field.
substitute_field(field, from) ==
    /\ wr = NoWrite
    /\ tampers < MaxTamper
    /\ Exists(fs, UserPath)
    /\ field # from
    /\ {field, from} \subseteq DOMAIN JsonLoad(fs, UserPath).fields
    /\ fs' = [fs EXCEPT ![UserPath] =
                  File([JsonLoad(fs, UserPath) EXCEPT
                           !.fields[field] = JsonLoad(fs, UserPath).fields[from]])]
    /\ gOrigin' = [gOrigin EXCEPT ![field] = gOrigin[from]]
    /\ tampers' = tampers + 1
    /\ last' = Call("tamper")
    /\ UNCHANGED <<master_key, passphrase, sysid, rnd, wr, gStored, gWritten, gEnc>>
    /\ UNCHANGED procs

\* Two processes that write at the same time.  Each has its own class
\* attributes and its own file object; both name the temp file path + '.tmp'.
\* A file object stays on the file it opened: after another process renames
\* that file onto the target it writes into the target, and after the file is
\* replaced in its turn it writes into a file no path leads to.
Unlinked == "unlinked"
\* The documents are shorter than the buffer of the file object, so json.dump
\* reaches the file as one write at offset 0 when the with block ends.  The
\* length of the JSON text grows with the number of fields (field names and
\* values have one length here) and, for a container, with the mode string.
JsonSize(doc) ==
    IF "fields" \in DOMAIN doc THEN Cardinality(DOMAIN doc.fields) ELSE Len(doc.mode)
Mixed(n) == [kind |-> "partial", size |-> n]
SizeOf(content) ==
    IF content.kind = "file" THEN JsonSize(content.doc)
    ELSE IF "size" \in DOMAIN content THEN content.size
    ELSE 0
\* A write of doc at offset 0 of a file that was not truncated since another
\* write: a longer text already there keeps its tail.
WriteAt0(content, doc) ==
    IF JsonSize(doc) >= SizeOf(content) THEN File(doc) ELSE Mixed(SizeOf(content))

\* store_master_key(key, user_confirmation=False) in process w, up to and
\* including open(tmp, 'w').
race_store_master_key(w, key) ==
    /\ wr = NoWrite
    /\ procs[w].pc = "idle"
    /\ rnd < MaxRand
    /\ \E c \in {store_master_key_call(key, FALSE, "", urandom(salt_size, rnd + 1),
                                       urandom(nonce_size, rnd + 1), None, sysid)} :
          /\ c.result = "ok"
          /\ fs' = OpenW(fs, MasterPath)
          /\ procs' = [procs EXCEPT ![w] = [pc |-> "open", path |-> MasterPath,
                           doc |-> c.doc, at |-> TmpOf(MasterPath),
                           cache |-> [old |-> procs[w].cache, new |-> key],
                           err |-> "ok"]]
    /\ rnd' = rnd + 1
    /\ UNCHANGED <<master_key, passphrase, sysid, wr, last, gStored, gWritten,
                   gOrigin, tampers, gEnc>>

\* set_secure(field, plaintext, key, user_confirmation=False) in process w, up
\* to and including open(tmp, 'w'), or up to the error that ends it.
race_set_secure(w, field, plaintext, key) ==
    /\ wr = NoWrite
    /\ procs[w].pc = "idle"
    /\ rnd < MaxRand
    /\ \E c \in {set_secure_call(field, plaintext, key, FALSE, "", urandom(12, rnd + 1),
                                 procs[w].cache, fs, None, sysid)} :
          IF c.result = "ok"
          THEN /\ fs' = OpenW(fs, UserPath)
               /\ procs' = [procs EXCEPT ![w] = [pc |-> "open", path |-> UserPath,
                                doc |-> c.doc, at |-> TmpOf(UserPath),
                                cache |-> [old |-> c.cache, new |-> c.cache],
                                err |-> "ok"]]
               /\ rnd' = rnd + 1
          ELSE /\ procs' = [procs EXCEPT ![w] = [Idle EXCEPT !.pc = "failed",
                                !.cache = c.cache, !.err = c.result]]
               /\ UNCHANGED <<fs, rnd>>
    /\ UNCHANGED <<master_key, passphrase, sysid, wr, last, gStored, gWritten,
                   gOrigin, tampers, gEnc>>

\* json.dump(data, fp) and the end of the with block in process w.
race_dump(w) ==
    /\ procs[w].pc = "open"
    /\ fs' = IF procs[w].at = Unlinked THEN fs
             ELSE [fs EXCEPT ![procs[w].at] = WriteAt0(@, procs[w].doc)]
    /\ procs' = [procs EXCEPT ![w].pc = "dumped", ![w].at = ""]
    /\ UNCHANGED <<master_key, passphrase, sysid, rnd, wr, last, gStored, gWritten,
                   gOrigin, tampers, gEnc>>

\* os.replace(tmp, path) in process w and the rest of its call; the rename
\* fails if no temp file is there.  The file objects other processes hold
\* open follow their files.
race_replace(w) ==
    /\ procs[w].pc = "dumped"
    /\ IF Exists(fs, TmpOf(procs[w].path))
       THEN /\ fs' = Replace(fs, procs[w].path)
            /\ procs' = [v \in Writers |->
                  IF v = w
                  THEN [Idle EXCEPT !.pc = "done", !.cache = procs[w].cache.new]
                  ELSE IF procs[v].at = TmpOf(procs[w].path)
                  THEN [procs[v] EXCEPT !.at = procs[w].path]
                  ELSE IF procs[v].at = procs[w].path
                  THEN [procs[v] EXCEPT !.at = Unlinked]
                  ELSE procs[v]]
       ELSE /\ procs' = [procs EXCEPT ![w] = [Idle EXCEPT !.pc = "failed",
                             !.cache = procs[w].cache.old, !.err = "FileNotFoundError"]]
            /\ UNCHANGED fs
    /\ UNCHANGED <<master_key, passphrase, sysid, rnd, wr, last, gStored, gWritten,
                   gOrigin, tampers, gEnc>>

\* The call of process w has returned or raised; the process is free to make
\* its next call.
race_return(w) ==
    /\ procs[w].pc \in {"done", "failed"}
    /\ procs' = [procs EXCEPT ![w].pc = "idle", ![w].err = "ok"]
    /\ UNCHANGED <<fs, master_key, passphrase, sysid, rnd, wr, last, gStored,
                   gWritten, gOrigin, tampers, gEnc>>

\* The history of encryptions.  store_master_key and set_secure leave gEnc
\* open; a specification either keeps no history or records the key and nonce
\* of the ciphertext the call has just written.
NoRecord == UNCHANGED gEnc
RecordStore ==
    gEnc' = IF last'.result = "ok"
            THEN Used(gEnc, B64Decode(JsonLoad(fs', MasterPath).data))
            ELSE gEnc
RecordSet ==
    gEnc' = IF last'.result = "ok"
            THEN Used(gEnc, B64Decode(JsonLoad(fs', UserPath).fields[last'.field].ciphertext))
            ELSE gEnc

Confirms == {<<FALSE, "">>} \cup {<<TRUE, r>> : r \in Responses}

\* The master-key side of the vault: every passphrase setting and identity,
\* with one field.
Next ==
    \/ \E p \in Passphrases : set_passphrase(p)
    \/ \E k \in Keys, c \in Confirms : store_master_key(k, c[1], c[2]) /\ NoRecord
    \/ \E k \in {None, K16} : get_secure("f1", k)
    \/ \E v \in Plaintexts, k \in {None, K16} :
          set_secure("f1", v, k, FALSE, "") /\ NoRecord
    \/ \E d \in Databases, c \in Confirms : clear_database(d, c[1], c[2])
    \/ \E id \in Identities : restart(id)

Spec == Init /\ [][Next]_vars

\* The field-store side of the vault: every field, plaintext and confirmation,
\* on one machine with no passphrase.
NextField ==
    \/ \E k \in DEKs : store_master_key(k, FALSE, "") /\ NoRecord
    \/ \E f \in Fields, k \in {None, K16, KBad} : get_secure(f, k)
    \/ \E f \in Fields, v \in Plaintexts, k \in {None, K16, KBad}, c \in Confirms :
          set_secure(f, v, k, c[1], c[2]) /\ NoRecord
    \/ \E d \in Databases : clear_database(d, FALSE, "")
    \/ restart(IdHome)

SpecField == Init /\ [][NextField]_vars

\* The writes step by step, with a single writer that may be killed at any step.
NextSteps ==
    \/ \E k \in DEKs : store_master_key_begin(k, FALSE, "") /\ NoRecord
    \/ \E v \in Plaintexts, k \in {None, K16} :
          set_secure_begin("f1", v, k, FALSE, "") /\ NoRecord
    \/ write_dump
    \/ write_replace
    \/ crash
    \/ \E k \in {None, K16} : get_secure("f1", k)
    \/ \E d \in {"master", " User "} : clear_database(d, FALSE, "")

SpecSteps == Init /\ [][NextSteps]_vars

\* The program with the files changed from outside between its calls.
NextTamper ==
    \/ set_passphrase("pw")
    \/ store_master_key(K16, FALSE, "") /\ NoRecord
    \/ \E f \in Fields, k \in {None, K16, K32} : get_secure(f, k)
    \/ \E w \in {<<"f1", "v1">>, <<"f2", "v2">>} :
          set_secure(w[1], w[2], None, FALSE, "") /\ NoRecord
    \/ restart(IdHome)
    \/ \E part \in MasterParts : tamper_master(part)
    \/ \E f \in Fields, part \in FieldParts : tamper_field(f, part)
    \/ \E f \in Fields, g \in Fields : substitute_field(f, g)

SpecTamper == Init /\ [][NextTamper]_vars

\* The encrypting calls with the history of their keys and nonces.
NextNonce ==
    \/ \E p \in {"pw"} : set_passphrase(p)
    \/ \E k \in DEKs : store_master_key(k, FALSE, "") /\ RecordStore
    \/ \E f \in Fields, k \in {None, K16} :
          set_secure(f, "v1", k, FALSE, "") /\ RecordSet
    \/ \E d \in {"master", " User "} : clear_database(d, FALSE, "")
    \/ restart(IdHome)

SpecNonce == Init /\ [][NextNonce]_vars

\* Concurrent writers: the steps of two processes in any order.
NextRace ==
    \/ \E w \in Writers, k \in {K16} : race_store_master_key(w, k)
    \/ \E w \in Writers, f \in Fields, k \in {None, K16} :
          race_set_secure(w, f, "v1", k)
    \/ \E w \in Writers : race_dump(w)
    \/ \E w \in Writers : race_replace(w)
    \/ \E w \in Writers : race_return(w)

SpecRace == Init /\ [][NextRace]_vars

\* ------------------------------------------------------------- properties
UserFields == IF Exists(fs, UserPath) THEN JsonLoad(fs, UserPath).fields ELSE EmptyFields
MasterMode == JsonLoad(fs, MasterPath).mode

\* The last call was a get_secure or set_secure that loaded the master key
\* (no key argument, nothing cached).
Loaded == last.op \in {"get_secure", "set_secure"} /\ last.load # "none"
\* The key the last get_secure or set_secure worked with.
KeyUsed == IF last.key # None THEN last.key ELSE master_key

\* C1: once store_master_key has succeeded, a load made by a process with the
\* same passphrase setting and the same system identity succeeds and caches
\* exactly the stored key.
C1_MasterKeyRoundTrip ==
    (Loaded /\ gStored # None /\ passphrase = gStored.pass /\ sysid = gStored.sysid)
        => (last.load = "ok" /\ master_key = gStored.dek)

\* C2: with the master key stored in System mode and field f last set to v under
\* that key, get_secure(f) with no key argument, in a process on the same
\* machine that has no passphrase and had no key cached, returns v.
C2_EndToEnd ==
    (/\ last.op = "get_secure" /\ last.key = None /\ last.load # "none"
     /\ passphrase = None
     /\ gStored # None /\ gStored.pass = None /\ gStored.sysid = sysid
     /\ last.field \in DOMAIN gWritten
     /\ gWritten[last.field].key = gStored.dek)
        => (last.result = "ok" /\ last.val = gWritten[last.field].pt)

C2_Witness ==
    /\ last.op = "get_secure" /\ last.load = "ok" /\ last.result = "ok"
    /\ last.val = "v2" /\ gStored # None /\ gStored.pass = None
    /\ gWritten[last.field].key = gStored.dek

\* C3: a load of a Passphrase-mode container with no passphrase set fails with
\* PassphraseRequired, a load of a System-mode container with a passphrase set
\* fails with PassphraseNotAllowed, PassphraseRequired is raised for no other
\* mode, and in both cases nothing is cached.
C3_ModeEnforcement ==
    (Loaded /\ Exists(fs, MasterPath)) =>
        /\ (MasterMode = "passphrase" /\ passphrase = None)
              => (last.result = "PassphraseRequiredError" /\ master_key = None)
        /\ (MasterMode = "system" /\ passphrase # None)
              => (last.result = "PassphraseNotAllowedError" /\ master_key = None)
        /\ (last.load = "PassphraseRequiredError") => MasterMode = "passphrase"

\* C4: a set_secure without confirmation on a field that already exists leaves
\* the same field names, replaces the entry, and get_secure of the field with
\* the same key then returns the new plaintext.
C4_Overwrite ==
    [][(/\ last'.op = "set_secure" /\ last'.result = "ok"
        /\ last'.existed /\ ~last'.prompted)
       => (/\ DOMAIN UserFields' = DOMAIN UserFields
           /\ UserFields'[last'.field] # UserFields[last'.field]
           /\ get_secure_call(last'.field, last'.key, master_key', fs', passphrase',
                              sysid')
                = [load |-> "none", cache |-> master_key', result |-> "ok",
                   val |-> gWritten'[last'.field].pt])]_vars

C4_Witness ==
    /\ last.op = "set_secure" /\ last.result = "ok" /\ last.existed /\ ~last.prompted
    /\ gWritten[last.field].pt = "v2"
    /\ DOMAIN UserFields = {last.field}

MasterTampered ==
    gStored # None /\ Exists(fs, MasterPath) /\ JsonLoad(fs, MasterPath) # gStored.doc
ModeErrors == {"PassphraseRequiredError", "PassphraseNotAllowedError"}
UnwrapErrors == {ErrIncorrectPassphrase, ErrIdentityChanged}
\* The last call was a get_secure that reached the decryption of a field that
\* set_secure has written.
Decrypted ==
    /\ last.op = "get_secure"
    /\ last.load \in {"none", "ok"}
    /\ last.field \in DOMAIN gWritten

\* C7 as stated: a load of a master container whose salt, nonce or data is not
\* what was written fails with MasterKeyDecryptionError, and a get_secure of a
\* field whose stored ciphertext or nonce is not what set_secure wrote for it
\* fails with FieldDecryptionError; no load yields another DEK than the one
\* stored and no get_secure another plaintext than the one stored for the field.
C7_AsStated ==
    /\ (Loaded /\ MasterTampered /\ last.load \notin ModeErrors)
          => last.load \in UnwrapErrors
    /\ (Loaded /\ last.load = "ok" /\ gStored # None) => master_key = gStored.dek
    /\ Decrypted =>
          /\ (UserFields[last.field] # gWritten[last.field].entry)
                => last.result = "FieldDecryptionError"
          /\ (last.result = "ok") => last.val = gWritten[last.field].pt

\* C7: a load of a master container whose salt, nonce or data is not what was
\* written fails, with MasterKeyDecryptionError once the mode check is passed,
\* and caches nothing; a load that succeeds yields the DEK that was stored.  A
\* get_secure of a field succeeds exactly if the stored (ciphertext, nonce)
\* pair is, unchanged, the pair some set_secure wrote -- for this field or,
\* copied whole, for another -- and the key is the key of that write; it then
\* returns the plaintext of that write.  With the right key and any other
\* stored pair it fails with FieldDecryptionError.
C7_TamperDetected ==
    /\ (Loaded /\ MasterTampered) =>
          /\ last.load \in ModeErrors \cup UnwrapErrors
          /\ master_key = None
    /\ (Loaded /\ last.load = "ok" /\ gStored # None) => master_key = gStored.dek
    /\ Decrypted =>
          IF /\ UserFields[last.field] = gOrigin[last.field].entry
             /\ KeyUsed = gOrigin[last.field].key
          THEN last.result = "ok" /\ last.val = gOrigin[last.field].pt
          ELSE last.result = "FieldDecryptionError"

C7_Witness ==
    /\ Decrypted
    /\ KeyUsed = gWritten[last.field].key
    /\ UserFields[last.field] # gWritten[last.field].entry
    /\ UserFields[last.field] # gOrigin[last.field].entry
    /\ last.result = "FieldDecryptionError"

\* C8: while a single writer runs store_master_key or set_secure, and if it is
\* killed at any step, each target file is absent or a complete document,
\* never a partial one; no step but os.replace changes a target file, and
\* os.replace leaves the complete new document in it.
Targets == {MasterPath, UserPath}
C8_AtomicReplace ==
    [][/\ \A p \in Targets : fs'[p] # Partial
       /\ (wr = NoWrite /\ wr' # NoWrite) => \A p \in Targets : fs'[p] = fs[p]
       /\ (wr # NoWrite) =>
            \/ \A p \in Targets : fs'[p] = fs[p]
            \/ /\ wr.stage = "dumped" /\ wr' = NoWrite /\ last'.result = "ok"
               /\ fs'[wr.path] = File(wr.doc)
               /\ \A p \in Targets \ {wr.path} : fs'[p] = fs[p]]_vars

C8_Witness ==
    /\ last.op = "crash"
    /\ fs[TmpOf(UserPath)].kind = "file"
    /\ Exists(fs, UserPath)
    /\ fs[UserPath] # fs[TmpOf(UserPath)]

\* C9: a load of a Passphrase-mode container with another passphrase than the
\* one it was stored with, or of a System-mode container under another system
\* identity, fails with MasterKeyDecryptionError and caches nothing; the message
\* is "Incorrect passphrase" only for Passphrase mode and "System identity has
\* changed" only for System mode.
C9_UnwrapFailure ==
    (Loaded /\ gStored # None) =>
        /\ (MasterMode = "passphrase" /\ passphrase # None /\ passphrase # gStored.pass)
              => (last.result = ErrIncorrectPassphrase /\ master_key = None)
        /\ (MasterMode = "system" /\ passphrase = None /\ sysid # gStored.sysid)
              => (last.result = ErrIdentityChanged /\ master_key = None)
        /\ (last.load = ErrIncorrectPassphrase) => MasterMode = "passphrase"
        /\ (last.load = ErrIdentityChanged) => MasterMode = "system"

C11_InvalidKeyLength ==
    [][\A c \in Confirms :
          (last'.op = "store_master_key" /\ store_master_key(KBad, c[1], c[2])) =>
              /\ last'.result = "InvalidKeyLengthError"
              /\ ~last'.prompted
              /\ fs' = fs
              /\ master_key' = master_key]_vars

C11_Witness ==
    /\ last.op = "store_master_key"
    /\ last.result = "InvalidKeyLengthError"
    /\ Exists(fs, MasterPath)
    /\ master_key # None

\* C12: store_master_key with a key of valid length, confirmation enabled and
\* an answer other than y/yes changes no file and not the cached key; with
\* an affirmative answer, or with confirmation disabled, the master container
\* is afterwards a complete document wrapping the key, and the key is cached.
C12_StoreConfirmation ==
    [][\A k \in DEKs :
          last'.op = "store_master_key" =>
          /\ store_master_key(k, TRUE, "n") =>
                 /\ last'.prompted /\ last'.result = "discarded"
                 /\ fs' = fs
                 /\ master_key' = master_key
          /\ (store_master_key(k, TRUE, " Yes ") \/ store_master_key(k, FALSE, "")) =>
                 /\ last'.result = "ok"
                 /\ Exists(fs', MasterPath)
                 /\ fs'[MasterPath] # Partial
                 /\ B64Decode(JsonLoad(fs', MasterPath).data).pt = k
                 /\ master_key' = k]_vars

C12_Witness ==
    /\ last.op = "store_master_key"
    /\ last.result = "discarded"
    /\ Exists(fs, MasterPath)
    /\ master_key # None

\* C13: a set_secure on a field that exists, with confirmation enabled and an
\* answer other than y/yes, changes no file, and a get_secure of the field
\* under the key it was written with still returns the old value; with
\* confirmation disabled it does not prompt and, if it succeeds, replaces the
\* entry by one holding the new value; on a field that does not exist it
\* does not prompt, whatever the confirmation flag.  It prompts on an existing
\* field with confirmation enabled whenever it has a key.
C13_SetConfirmation ==
    [][last'.op = "set_secure" =>
         \A f \in {last'.field}, k \in {last'.key}, v \in Plaintexts :
            /\ (f \in DOMAIN UserFields /\ set_secure(f, v, k, TRUE, "n")) =>
                   /\ fs' = fs
                   /\ last'.result # "ok"
                   /\ last'.load \in {"none", "ok"} =>
                         last'.prompted /\ last'.result = "discarded"
                   /\ get_secure_call(f, gWritten[f].key, master_key', fs',
                                      passphrase', sysid').val = gWritten[f].pt
            /\ (f \in DOMAIN UserFields /\ set_secure(f, v, k, FALSE, "")) =>
                   /\ ~last'.prompted
                   /\ last'.result = "ok" =>
                         /\ UserFields'[f] # UserFields[f]
                         /\ get_secure_call(f, k, master_key', fs', passphrase',
                                            sysid').val = v
            /\ \A c \in Confirms :
                  (f \notin DOMAIN UserFields /\ set_secure(f, v, k, c[1], c[2])) =>
                      ~last'.prompted]_vars

C13_Witness ==
    /\ last.op = "set_secure"
    /\ last.result = "discarded"
    /\ last.prompted
    /\ last.field \in DOMAIN UserFields

\* C14: clear_database changes no file but the targeted one, and that one only
\* by removing it and only if confirmation is disabled or the answer is
\* affirmative; in that case the targeted file is absent afterwards; if the
\* targeted file is absent nothing changes; no call raises an error.
TargetOf(database) ==
    IF database = "master" THEN {MasterPath}
    ELSE IF database = " User " THEN {UserPath}
    ELSE {}
C14_ClearDatabase ==
    [][last'.op = "clear_database" =>
         \A d \in Databases, c \in Confirms :
            clear_database(d, c[1], c[2]) =>
               /\ last'.result \in {"ok", "nothing", "discarded", "ignored"}
               /\ \A p \in Paths :
                     fs'[p] # fs[p] =>
                        /\ p \in TargetOf(d)
                        /\ c \in {<<FALSE, "">>, <<TRUE, " Yes ">>}
                        /\ fs'[p] = Absent
               /\ (c \in {<<FALSE, "">>, <<TRUE, " Yes ">>}) =>
                     \A p \in TargetOf(d) : fs'[p] = Absent
               /\ (\A p \in TargetOf(d) : fs[p] = Absent) => fs' = fs]_vars

C14_Witness ==
    /\ last.op = "clear_database"
    /\ last.result = "ok"
    /\ last.prompted
    /\ ~Exists(fs, MasterPath)
    /\ Exists(fs, UserPath)

\* C15: a get_secure with no key argument, by a process whose key is the stored
\* master key, of a field last set under another key fails with
\* FieldDecryptionError and returns nothing; of a field last set under the
\* stored master key it returns the value last set.
C15_KeyReplacement ==
    (/\ last.op = "get_secure" /\ last.key = None /\ last.load \in {"none", "ok"}
     /\ gStored # None /\ master_key = gStored.dek
     /\ last.field \in DOMAIN gWritten)
        => IF gWritten[last.field].key = gStored.dek
           THEN last.result = "ok" /\ last.val = gWritten[last.field].pt
           ELSE last.result = "FieldDecryptionError" /\ last.val = ""

\* The field was set under K32, which only a stored master key can be, and
\* the master key has since been replaced by K16.
C15_Witness ==
    /\ last.op = "get_secure" /\ last.key = None
    /\ last.result = "FieldDecryptionError"
    /\ gStored # None /\ gStored.dek = K16 /\ master_key = K16
    /\ gWritten[last.field].key = K32

\* C16: a get_secure that reaches decryption and a set_secure that reaches
\* encryption with a key argument whose length is not 16, 24 or 32 fail with
\* InvalidKeyLengthError, and the field is not written.
C16_KeyLengthAtAEAD ==
    /\ (/\ last.op = "get_secure" /\ last.key = KBad
        /\ last.field \in DOMAIN UserFields)
          => last.result = "InvalidKeyLengthError"
    /\ (/\ last.op = "set_secure" /\ last.key = KBad
        /\ last.result # "discarded")
          => /\ last.result = "InvalidKeyLengthError"
             /\ (last.field \in DOMAIN UserFields =>
                    UserFields[last.field] = gWritten[last.field].entry)

C19_NonceFreshness ==
    [][/\ \A e \in BagToSet(gEnc') : CopiesIn(e, gEnc') = 1
       /\ (/\ last'.op = "set_secure" /\ last'.result = "ok"
           /\ last'.field \in DOMAIN UserFields)
             => UserFields'[last'.field].nonce # UserFields[last'.field].nonce]_vars

\* Two encryptions were made under the same key.
C19_Witness ==
    \E e1, e2 \in BagToSet(gEnc) : e1.key = e2.key /\ e1.nonce # e2.nonce

\* C20: set_passphrase changes no file and not the cached key.  The master
\* container holds mode, schema_version, salt, nonce and data and nothing
\* else: salt and nonce are random bytes and data is the master key encrypted
\* under a key derived by Scrypt; the field store holds a version and, per
\* field, a nonce of random bytes and a ciphertext made under a key of bytes.
ContainerShape(doc) ==
    /\ DOMAIN doc = {"mode", "schema_version", "salt", "nonce", "data"}
    /\ doc.mode \in {"system", "passphrase"}
    /\ doc.schema_version = ToStr(MASTER_DB_VERSION)
    /\ B64Decode(doc.salt).kind = "bytes"
    /\ B64Decode(doc.nonce).kind = "bytes"
    /\ DOMAIN B64Decode(doc.data) = {"key", "nonce", "pt", "flip"}
    /\ B64Decode(doc.data).key.kind = "kek"
    /\ B64Decode(doc.data).pt.kind = "bytes"
StoreShape(doc) ==
    /\ DOMAIN doc = {"version", "fields"}
    /\ \A f \in DOMAIN doc.fields :
          /\ DOMAIN doc.fields[f] = {"ciphertext", "nonce"}
          /\ B64Decode(doc.fields[f].nonce).kind = "bytes"
          /\ B64Decode(doc.fields[f].ciphertext).key.kind = "bytes"
C20_PassphraseInMemory ==
    [][/\ last'.op = "set_passphrase" => (fs' = fs /\ master_key' = master_key)
       /\ \A p \in {MasterPath, TmpOf(MasterPath)} :
             Exists(fs', p) => ContainerShape(JsonLoad(fs', p))
       /\ \A p \in {UserPath, TmpOf(UserPath)} :
             Exists(fs', p) => StoreShape(JsonLoad(fs', p))]_vars

\* A passphrase is set while a Passphrase-mode container, a field store and a
\* cached key exist.
C20_Witness ==
    /\ last.op = "set_passphrase"
    /\ passphrase.val = "pw2"
    /\ Exists(fs, MasterPath) /\ MasterMode = "passphrase"
    /\ Exists(fs, UserPath)
    /\ master_key # None

\* C21: a get_secure or set_secure whose load of the master key fails leaves
\* the cached key unset and every file as it was, and the same call made
\* again in the state it leaves fails with the same error; a load made with
\* the passphrase a Passphrase-mode container was stored with succeeds and
\* caches the stored key.
LoadErrors ==
    ModeErrors \cup UnwrapErrors \cup {"MasterDatabaseNotFoundError"}
C21_FailedLoadRecovery ==
    [][last'.op \in {"get_secure", "set_secure"} =>
         /\ last'.load \in LoadErrors =>
               /\ last'.result = last'.load
               /\ master_key' = None
               /\ fs' = fs
               /\ get_secure_call(last'.field, None, master_key', fs', passphrase',
                                  sysid').result = last'.load
               /\ \A v \in Plaintexts, c \in Confirms :
                     set_secure_call(last'.field, v, None, c[1], c[2],
                                     urandom(12, rnd' + 1), master_key', fs',
                                     passphrase', sysid').result = last'.load
         /\ (/\ last'.load # "none" /\ gStored # None
             /\ gStored.pass # None /\ passphrase = gStored.pass) =>
               /\ last'.load = "ok"
               /\ master_key' = gStored.dek]_vars

\* C22: with two processes writing at the same time, no call fails and each
\* store file, once it exists, holds a complete document at every moment.
C22_ConcurrentWriters ==
    /\ \A w \in Writers : procs[w].pc = "failed" =>
          procs[w].err \in {"MasterDatabaseNotFoundError"}
    /\ \A path \in {MasterPath, UserPath} : fs[path].kind \in {"absent", "file"}

\* C23: a successful set_secure(f, v) leaves every entry of the field store
\* other than f as it was, ciphertext and nonce, adds no field but f, keeps the
\* version tag of an existing store and does not touch the master container
\* file.
C23_SetSecureFrame ==
    [][(last'.op = "set_secure" /\ last'.result = "ok") =>
         /\ DOMAIN UserFields' = DOMAIN UserFields \cup {last'.field}
         /\ \A g \in DOMAIN UserFields \ {last'.field} : UserFields'[g] = UserFields[g]
         /\ Exists(fs, UserPath) =>
               JsonLoad(fs', UserPath).version = JsonLoad(fs, UserPath).version
         /\ fs'[MasterPath] = fs[MasterPath]]_vars

\* A set_secure has succeeded on a store that holds another field, with a
\* master container on disk.
C23_Witness ==
    /\ last.op = "set_secure" /\ last.result = "ok" /\ last.existed
    /\ DOMAIN UserFields = Fields
    /\ Exists(fs, MasterPath)
    /\ \A g \in Fields : g \in DOMAIN gWritten /\ UserFields[g] = gWritten[g].entry

\* C24: a get_secure or set_secure given a key makes no load of the master
\* container and leaves the cached key, the passphrase and the container file
\* as they were; its outcome is the one it would have with the container
\* absent, unreadable or as it is; and after a successful set_secure with key
\* k, get_secure of that field with key k returns the value set.
WithMaster(files, content) == [files EXCEPT ![MasterPath] = content]
C24_ExplicitKeyBypass ==
    [][(last'.op \in {"get_secure", "set_secure"} /\ last'.key # None) =>
         /\ last'.load = "none"
         /\ master_key' = master_key
         /\ passphrase' = passphrase
         /\ fs'[MasterPath] = fs[MasterPath]
         /\ \A m \in {Absent, Partial, fs[MasterPath]} :
               IF last'.op = "get_secure"
               THEN LET r == get_secure_call(last'.field, last'.key, master_key,
                                             WithMaster(fs, m), passphrase, sysid)
                    IN r.result = last'.result /\ r.val = last'.val
               ELSE \E v \in Plaintexts, c \in Confirms :
                      LET r == set_secure_call(last'.field, v, last'.key, c[1], c[2],
                                               urandom(12, rnd + 1), master_key,
                                               WithMaster(fs, m), passphrase, sysid)
                      IN /\ r.result = last'.result
                         /\ r.result = "ok" => File(r.doc) = fs'[UserPath]
                         /\ r.result # "ok" => fs'[UserPath] = fs[UserPath]
         /\ (last'.op = "set_secure" /\ last'.result = "ok") =>
               LET r == get_secure_call(last'.field, last'.key, master_key', fs',
                                        passphrase', sysid')
               IN r.result = "ok" /\ r.val = gWritten'[last'.field].pt]_vars

\* A get_secure with a key has returned the value while a master container is
\* on disk that the process, with nothing cached, could not load.
C24_Witness ==
    /\ last.op = "get_secure" /\ last.key # None /\ last.result = "ok"
    /\ last.val \in Plaintexts
    /\ master_key = None
    /\ Exists(fs, MasterPath)
    /\ load_master_key(fs, passphrase, sysid).err \in ModeErrors \cup UnwrapErrors

\* C25: the field-store file comes to exist only in a successful set_secure,
\* and every successful set_secure leaves it existing; a store just created
\* holds the current schema version and exactly the field set; get_secure
\* leaves the file as it was; the file ceases to exist only in a
\* clear_database naming the user database.
C25_StoreLifecycle ==
    [][/\ (~Exists(fs, UserPath) /\ Exists(fs', UserPath)) =>
            /\ last'.op = "set_secure" /\ last'.result = "ok"
            /\ fs'[UserPath].kind = "file"
            /\ JsonLoad(fs', UserPath).version = USER_DB_VERSION
            /\ DOMAIN JsonLoad(fs', UserPath).fields = {last'.field}
       /\ (last'.op = "set_secure" /\ last'.result = "ok") => Exists(fs', UserPath)
       /\ last'.op = "get_secure" => fs'[UserPath] = fs[UserPath]
       /\ (Exists(fs, UserPath) /\ ~Exists(fs', UserPath)) =>
            /\ last'.op = "clear_database" /\ last'.result = "ok"
            /\ \A d \in Databases, c \in Confirms :
                  clear_database(d, c[1], c[2]) => TargetOf(d) = {UserPath}]_vars

\* A set_secure with the loaded master key has created the field store while
\* the master container is on disk.
C25_Witness ==
    /\ last.op = "set_secure" /\ last.result = "ok" /\ ~last.existed
    /\ last.load = "ok"
    /\ Exists(fs, UserPath)
    /\ DOMAIN UserFields = {last.field}
    /\ JsonLoad(fs, UserPath).version = USER_DB_VERSION

====
